---- MODULE Spec2Model ----
(***************************************************************************)
(* Model of the Glogos genesis attestation protocol as implemented in      *)
(* ceremony/witness.py: identity derivation, attestation building and the  *)
(* ordered, short-circuiting verification procedure, the ceremony run      *)
(* main() and verify_artifact, together with the verifier scripts          *)
(* scripts/verify_quick.py and scripts/verify_full.py.                     *)
(*                                                                         *)
(* Values are symbolic.  A byte string (Python bytes) is a sequence of     *)
(* byte atoms, a text string (Python str) is a sequence of text atoms.     *)
(* Every atom is a triple <<tag, payload, extra>>:                         *)
(*   <<"sha",  pre,  mask>>  the 32-byte SHA-256 digest of the bytes pre    *)
(*   <<"pk",   seed, mask>>  the 32-byte Ed25519 public key of seed         *)
(*   <<"sig",  <<seed, msg>>, mask>>  the 64-byte Ed25519 signature         *)
(*   <<"u64",  n,    {}>>    the 8 bytes struct.pack('>Q', n)               *)
(*   <<"utf8", t,    {}>>    the UTF-8 bytes of the text atom t             *)
(*   <<"hex",  b,    case>>  the hex digits of the byte atom b              *)
(*   <<"txt",  s,    "">>    the literal text s                             *)
(* mask is the set of bit positions in which the value differs from the    *)
(* genuine digest, key or signature.  Two atoms are equal exactly when     *)
(* they are the same term: SHA-256 is taken to be collision resistant and  *)
(* Ed25519 to be unforgeable.                                              *)
(***************************************************************************)
EXTENDS Integers, Sequences, FiniteSets, TLC

\* Number of bit positions of a field that the tampering inputs may flip.
NBits == 2
\* Longest refs list given to compute_refs_hash.
MaxRefs == 3
\* Longest refs list substituted into an attestation under verification.
MaxTamperRefs == 2

BitPositions == 0 .. (NBits - 1)

\* ------------------------------------------------------------------------
\* Protocol constants
\* ------------------------------------------------------------------------
GENESIS_TIMESTAMP == 1766329380

DOMAIN_SEPARATOR == <<"txt", "glogos-genesis", "">>

REFS_DELIMITER == <<"txt", "|", "">>

\* ------------------------------------------------------------------------
\* Cryptographic primitives
\* ------------------------------------------------------------------------
IsStr(data) == \A i \in 1 .. Len(data) : data[i][1] \in {"hex", "txt"}

encode_utf8(s) == [i \in 1 .. Len(s) |-> <<"utf8", s[i], {}>>]

\* bytes.fromhex raises ValueError unless the text is made of hex digits.
IsHex(hex_str) == \A i \in 1 .. Len(hex_str) : hex_str[i][1] = "hex"

hex_to_bytes(hex_str) == [i \in 1 .. Len(hex_str) |-> hex_str[i][2]]

bytes_to_hex(data) == [i \in 1 .. Len(data) |-> <<"hex", data[i], "lower">>]

sha256_bytes(data) == << <<"sha", data, {}>> >>

sha256_hex(data) ==
    bytes_to_hex(sha256_bytes(IF IsStr(data) THEN encode_utf8(data) ELSE data))

\* struct.pack('>Q', n) raises struct.error outside the unsigned 64-bit
\* range; every non-negative integer of the model is below 2^64.
InUint64(n) == n >= 0

uint64_be(n) == << <<"u64", n, {}>> >>

\* The literal GLR of the source is the lower-case hex of SHA-256(b'').
GLR == bytes_to_hex(<< <<"sha", <<>>, {}>> >>)

\* Number of bytes of one text character sequence / one byte atom.
TextLen(t) ==
    CASE t[1] = "hex" /\ t[2][1] \in {"sha", "pk"} -> 64
      [] t[1] = "hex" /\ t[2][1] = "sig" -> 128
      [] t[1] = "hex" /\ t[2][1] = "u64" -> 16
      [] t = REFS_DELIMITER -> 1
      [] t = DOMAIN_SEPARATOR -> 14
      [] t = <<"txt", "From nothing, truth emerges", "">> -> 27
      [] t = <<"txt", "raw:sha256:1.0", "">> -> 14
      [] OTHER -> 2

AtomLen(b) ==
    CASE b[1] \in {"sha", "pk"} -> 32
      [] b[1] = "sig" -> 64
      [] b[1] = "u64" -> 8
      [] OTHER -> TextLen(b[2])

RECURSIVE ByteLen(_)
ByteLen(data) ==
    IF data = <<>> THEN 0 ELSE AtomLen(Head(data)) + ByteLen(Tail(data))

\* ------------------------------------------------------------------------
\* Ed25519 (nacl.signing)
\* ------------------------------------------------------------------------
\* SigningKey(seed).verify_key.encode()
VerifyKeyOf(seed) == << <<"pk", seed, {}>> >>

\* SigningKey(seed).sign(message).signature
SignatureOf(seed, message) == << <<"sig", <<seed, message>>, {}>> >>

\* VerifyKey(public_key_bytes).verify(message, signature_bytes) returns
\* normally; otherwise it raises (wrong length or BadSignatureError).
Ed25519Verifies(public_key_bytes, message, signature_bytes) ==
    /\ ByteLen(public_key_bytes) = 32
    /\ ByteLen(signature_bytes) = 64
    /\ Len(public_key_bytes) = 1
    /\ public_key_bytes[1][1] = "pk"
    /\ public_key_bytes[1][3] = {}
    /\ signature_bytes = SignatureOf(public_key_bytes[1][2], message)

\* ------------------------------------------------------------------------
\* Zone operations
\* ------------------------------------------------------------------------
SUBJECT_TEXT == << <<"txt", "From nothing, truth emerges", "">> >>

CANON_TEXT == << <<"txt", "raw:sha256:1.0", "">> >>

GenesisSeed == sha256_bytes(hex_to_bytes(GLR) \o encode_utf8(<<DOMAIN_SEPARATOR>>))

\* The pre-computed values returned without PyNaCl.  The four literals are
\* the hex of SHA-256(GLR || "glogos-genesis"), of its RFC 8032 public key
\* and of SHA-256(public key).
FallbackZone ==
    [seed |-> bytes_to_hex(GenesisSeed),
     private_key |-> bytes_to_hex(GenesisSeed),
     public_key |-> bytes_to_hex(VerifyKeyOf(GenesisSeed)),
     zone_id |-> bytes_to_hex(sha256_bytes(VerifyKeyOf(GenesisSeed)))]

derive_genesis_zone(nacl) ==
    IF ~nacl
    THEN FallbackZone
    ELSE LET glr_bytes == hex_to_bytes(GLR)
             domain_bytes == encode_utf8(<<DOMAIN_SEPARATOR>>)
             seed == sha256_bytes(glr_bytes \o domain_bytes)
             public_key_bytes == VerifyKeyOf(seed)
             zone_id == sha256_hex(public_key_bytes)
         IN [seed |-> bytes_to_hex(seed),
             private_key |-> bytes_to_hex(seed),
             public_key |-> bytes_to_hex(public_key_bytes),
             zone_id |-> zone_id]

\* ------------------------------------------------------------------------
\* Attestation operations
\* ------------------------------------------------------------------------
\* Code point of a hex digit as it is written in the text.
CharCode(nibble, case) ==
    IF nibble < 10 THEN 48 + nibble
    ELSE IF case = "upper" THEN 55 + nibble ELSE 87 + nibble

\* The leading hex digits of the digests that occur as references
\* (e3b0..., 73c1..., c794..., db17...); flipped bits are low-order bits.
LeadDigits(b) ==
    CASE b[1] = "sha" /\ b[2] = <<>> -> <<14, 3, 11, 0>>
      [] b[1] = "sha" /\ b[2] = encode_utf8(SUBJECT_TEXT) -> <<7, 3, 12, 1>>
      [] b[1] = "sha" /\ b[2] = encode_utf8(CANON_TEXT) -> <<12, 7, 9, 4>>
      [] b[1] = "sha" /\ b[2] = VerifyKeyOf(GenesisSeed) -> <<13, 11, 1, 7>>
      [] OTHER -> <<0, 0, 0, 0>>

RECURSIVE MaskValue(_)
MaskValue(mask) ==
    IF mask = {} THEN 0
    ELSE LET i == CHOOSE j \in mask : TRUE IN 2 ^ i + MaskValue(mask \ {i})

\* The characters that decide the order of a reference among the inputs.
SortKey(ref) ==
    IF ref = <<>> THEN <<>>
    ELSE LET t == ref[1] IN
         IF t[1] = "hex"
         THEN [i \in 1 .. 4 |-> CharCode(LeadDigits(t[2])[i], t[3])]
                  \o <<MaskValue(t[2][3])>>
         ELSE <<0>>

RECURSIVE KeyLess(_, _)
KeyLess(k1, k2) ==
    IF k1 = <<>> THEN k2 # <<>>
    ELSE IF k2 = <<>> THEN FALSE
    ELSE IF Head(k1) # Head(k2) THEN Head(k1) < Head(k2)
    ELSE KeyLess(Tail(k1), Tail(k2))

RECURSIVE InsertSorted(_, _)
InsertSorted(ref, sorted_refs) ==
    IF sorted_refs = <<>> THEN <<ref>>
    ELSE IF KeyLess(SortKey(ref), SortKey(Head(sorted_refs)))
         THEN <<ref>> \o sorted_refs
         ELSE <<Head(sorted_refs)>> \o InsertSorted(ref, Tail(sorted_refs))

\* sorted(refs) returning the list as it is.
sorted_unchanged(refs) == refs

\* sorted(refs): lexicographic order of the strings.
RECURSIVE sorted(_)
sorted(refs) ==
    IF refs = <<>> THEN <<>>
    ELSE InsertSorted(refs[Len(refs)], sorted(SubSeq(refs, 1, Len(refs) - 1)))

\* REFS_DELIMITER.join(sorted_refs)
RECURSIVE join(_)
join(strs) ==
    IF strs = <<>> THEN <<>>
    ELSE IF Len(strs) = 1 THEN strs[1]
    ELSE strs[1] \o <<REFS_DELIMITER>> \o join(Tail(strs))

\* compute_refs_hash joining the refs in the order given.
compute_refs_hash_unsorted(refs) ==
    IF refs = <<>> THEN GLR ELSE sha256_hex(join(refs))

compute_refs_hash(refs) ==
    IF refs = <<>>
    THEN GLR
    ELSE LET sorted_refs == sorted(refs)
             refs_concat == join(sorted_refs)
         IN sha256_hex(refs_concat)

\* The exception compute_attestation_id raises, "none" when it returns.
compute_attestation_id_raises(zone, subject, canon, time) ==
    IF ~IsHex(zone) \/ ~IsHex(subject) \/ ~IsHex(canon) THEN "ValueError"
    ELSE IF ~InUint64(time) THEN "struct.error"
    ELSE "none"

\* compute_attestation_id leaving the time out of the hashed data.
compute_attestation_id_no_time(zone, subject, canon, time) ==
    sha256_hex(hex_to_bytes(zone) \o hex_to_bytes(subject) \o hex_to_bytes(canon))

compute_attestation_id(zone, subject, canon, time) ==
    LET data == hex_to_bytes(zone) \o hex_to_bytes(subject)
                    \o hex_to_bytes(canon) \o uint64_be(time)
    IN sha256_hex(data)

build_signature_input(attestation_id, subject, time, refs_hash, canon) ==
    hex_to_bytes(attestation_id) \o hex_to_bytes(subject) \o uint64_be(time)
        \o hex_to_bytes(refs_hash) \o hex_to_bytes(canon)

\* sign_message signing under the seed GLR instead of the given private key.
sign_message_wrong_key(message, private_key_hex) ==
    bytes_to_hex(SignatureOf(hex_to_bytes(GLR), message))

sign_message(message, private_key_hex) ==
    LET seed == hex_to_bytes(private_key_hex)
        signature == SignatureOf(seed, message)
    IN bytes_to_hex(signature)

\* Called only with PyNaCl; every exception inside becomes False.
verify_signature(message, signature_hex, public_key_hex) ==
    /\ IsHex(public_key_hex)
    /\ IsHex(signature_hex)
    /\ Ed25519Verifies(hex_to_bytes(public_key_hex), message,
                       hex_to_bytes(signature_hex))

\* The literal proof of the source: the RFC 8032 signature of the genesis
\* sign input under the genesis seed.
FallbackProof ==
    LET subject == sha256_hex(SUBJECT_TEXT)
        canon == sha256_hex(CANON_TEXT)
        attestation_id == compute_attestation_id(FallbackZone.zone_id, subject,
                                                 canon, GENESIS_TIMESTAMP)
    IN bytes_to_hex(SignatureOf(GenesisSeed,
           build_signature_input(attestation_id, subject, GENESIS_TIMESTAMP,
                                 sha256_hex(GLR), canon)))

create_genesis_attestation(zone, nacl) ==
    LET subject == sha256_hex(SUBJECT_TEXT)
        canon == sha256_hex(CANON_TEXT)
        refs == <<GLR>>
        attestation_id == compute_attestation_id(zone.zone_id, subject, canon,
                                                 GENESIS_TIMESTAMP)
        refs_hash == compute_refs_hash(refs)
        sign_input == build_signature_input(attestation_id, subject,
                                            GENESIS_TIMESTAMP, refs_hash, canon)
        proof == IF nacl THEN sign_message(sign_input, zone.private_key)
                 ELSE FallbackProof
    IN [id |-> attestation_id,
        zone |-> zone.zone_id,
        subject |-> subject,
        canon |-> canon,
        time |-> GENESIS_TIMESTAMP,
        refs |-> refs,
        proof |-> proof]

\* Result of verify_attestation: the returned dict, or the exception that
\* left the function (raised # "none"; the other fields then mean nothing).
Raised(exc) == [raised |-> exc, valid |-> FALSE, error |-> "none", steps |-> <<>>]

\* Every failure reported with the error of the last check.
ReturnedLastError(valid, error, steps) ==
    [raised |-> "none", valid |-> valid,
     error |-> IF valid THEN "none" ELSE "Invalid signature", steps |-> steps]

Returned(valid, error, steps) ==
    [raised |-> "none", valid |-> valid, error |-> error, steps |-> steps]

\* verify_attestation without the early returns: every check is run and
\* recorded, and the error is that of the last check that failed.
verify_attestation_no_stop(attestation, public_key, nacl) ==
    IF ~IsHex(public_key) THEN Raised("ValueError") ELSE
    LET computed_zone == sha256_hex(hex_to_bytes(public_key))
        zone_valid == computed_zone = attestation.zone
        id_raises == compute_attestation_id_raises(attestation.zone,
                         attestation.subject, attestation.canon, attestation.time)
    IN
    IF id_raises # "none" \/ ~IsHex(attestation.id) THEN Raised("ValueError") ELSE
    LET computed_id == compute_attestation_id(attestation.zone,
                           attestation.subject, attestation.canon, attestation.time)
        id_valid == computed_id = attestation.id
        refs_hash == compute_refs_hash(attestation.refs)
        sign_input == build_signature_input(attestation.id, attestation.subject,
                          attestation.time, refs_hash, attestation.canon)
        sig_valid == IF nacl
                     THEN verify_signature(sign_input, attestation.proof, public_key)
                     ELSE TRUE
        steps == << [name |-> "Zone verification", passed |-> zone_valid],
                    [name |-> "Attestation ID verification", passed |-> id_valid],
                    [name |-> IF nacl THEN "Ed25519 signature verification"
                              ELSE "Signature verification",
                     passed |-> sig_valid] >>
    IN
    IF ~sig_valid THEN Returned(FALSE, "Invalid signature", steps)
    ELSE IF ~id_valid THEN Returned(FALSE, "Attestation ID mismatch", steps)
    ELSE IF ~zone_valid THEN Returned(FALSE, "Zone ID mismatch", steps)
    ELSE Returned(TRUE, "none", steps)

verify_attestation(attestation, public_key, nacl) ==
    IF ~IsHex(public_key) THEN Raised("ValueError") ELSE
    LET computed_zone == sha256_hex(hex_to_bytes(public_key))
        zone_valid == computed_zone = attestation.zone
        steps1 == << [name |-> "Zone verification", passed |-> zone_valid] >>
    IN
    IF ~zone_valid THEN Returned(FALSE, "Zone ID mismatch", steps1) ELSE
    LET id_raises == compute_attestation_id_raises(attestation.zone,
                         attestation.subject, attestation.canon, attestation.time)
    IN
    IF id_raises # "none" THEN Raised(id_raises) ELSE
    LET computed_id == compute_attestation_id(attestation.zone,
                           attestation.subject, attestation.canon, attestation.time)
        id_valid == computed_id = attestation.id
        steps2 == Append(steps1, [name |-> "Attestation ID verification",
                                  passed |-> id_valid])
    IN
    IF ~id_valid THEN Returned(FALSE, "Attestation ID mismatch", steps2) ELSE
    LET refs_hash == compute_refs_hash(attestation.refs)
        sign_input == build_signature_input(attestation.id, attestation.subject,
                          attestation.time, refs_hash, attestation.canon)
        sig_valid == IF nacl
                     THEN verify_signature(sign_input, attestation.proof, public_key)
                     ELSE TRUE
        steps3 == IF nacl
                  THEN Append(steps2, [name |-> "Ed25519 signature verification",
                                       passed |-> sig_valid])
                  ELSE Append(steps2, [name |-> "Signature verification",
                                       passed |-> TRUE])
    IN
    IF ~sig_valid THEN Returned(FALSE, "Invalid signature", steps3)
    ELSE Returned(TRUE, "none", steps3)

\* ------------------------------------------------------------------------
\* Inputs of the verifier
\* ------------------------------------------------------------------------
NoZone == [seed |-> <<>>, private_key |-> <<>>, public_key |-> <<>>, zone_id |-> <<>>]

NoAttestation ==
    [id |-> <<>>, zone |-> <<>>, subject |-> <<>>, canon |-> <<>>, time |-> 0,
     refs |-> <<>>, proof |-> <<>>]

NotCalled == Raised("not_called")

HexFields == {"id", "zone", "subject", "canon", "proof"}

\* The hex text of the value that differs from that of hex_str in bit i.
FlipHex(hex_str, i) ==
    IF Len(hex_str) = 1 /\ hex_str[1][1] = "hex"
           /\ hex_str[1][2][1] \in {"sha", "pk", "sig"}
    THEN LET b == hex_str[1][2]
             mask == (b[3] \ {i}) \cup ({i} \ b[3])
         IN << <<"hex", <<b[1], b[2], mask>>, hex_str[1][3]>> >>
    ELSE hex_str

\* The integer that differs from n in bit i.
FlipBit(n, i) == IF (n \div (2 ^ i)) % 2 = 1 THEN n - 2 ^ i ELSE n + 2 ^ i

FlipField(a, f, i) ==
    IF f = "time" THEN [a EXCEPT !.time = FlipBit(a.time, i)]
    ELSE [a EXCEPT ![f] = FlipHex(a[f], i)]

\* The same hex digits written in upper case.
Upper(hex_str) ==
    [k \in 1 .. Len(hex_str) |->
        IF hex_str[k][1] = "hex" THEN <<"hex", hex_str[k][2], "upper">>
        ELSE hex_str[k]]

NotHex == << <<"txt", "zz", "">> >>

RECURSIVE ListsUpTo(_, _)
ListsUpTo(pool, n) ==
    IF n = 0 THEN {<<>>}
    ELSE LET shorter == ListsUpTo(pool, n - 1)
         IN shorter \cup {Append(l, r) : l \in shorter, r \in pool}

\* The refs lists an attestation under verification may carry.
TamperRefs == ListsUpTo({GLR, sha256_hex(SUBJECT_TEXT)}, MaxTamperRefs)

\* The attestation re-signed by a holder of the seed (the genesis seed is
\* derived from public constants).
Resign(a, private_key) ==
    IF compute_attestation_id_raises(a.zone, a.subject, a.canon, a.time) # "none"
           \/ ~IsHex(a.id)
    THEN a
    ELSE [a EXCEPT !.proof =
             sign_message(build_signature_input(a.id, a.subject, a.time,
                              compute_refs_hash(a.refs), a.canon), private_key)]

\* The attestation with its id recomputed from its other fields.
Rebind(a) ==
    IF compute_attestation_id_raises(a.zone, a.subject, a.canon, a.time) # "none"
    THEN a
    ELSE [a EXCEPT !.id = compute_attestation_id(a.zone, a.subject, a.canon, a.time)]

\* What one alteration of the record a can produce.
Tamper(a, private_key) ==
    {FlipField(a, f, i) : f \in HexFields \cup {"time"}, i \in BitPositions}
        \cup {[a EXCEPT !.refs = r] : r \in TamperRefs}
        \cup {[a EXCEPT ![f] = Upper(a[f])] : f \in HexFields}
        \cup {[a EXCEPT !.subject = NotHex], [a EXCEPT !.time = -1],
              Rebind(a), Resign(a, private_key)}
        \cup {[a EXCEPT !.subject = a.proof], [a EXCEPT !.proof = a.id]}

\* The attestation arguments of verify_attestation: the built attestation
\* and the records one or two alterations away from it.
AttestationInputs(a, private_key) ==
    LET once == Tamper(a, private_key)
    IN {a} \cup once \cup UNION {Tamper(t, private_key) : t \in once}

\* The public key arguments: the zone's key, the key of another seed, the
\* zone's key in upper case, and text that is not hex.
PublicKeyInputs(zone) ==
    {zone.public_key, bytes_to_hex(VerifyKeyOf(hex_to_bytes(GLR))),
     Upper(zone.public_key), NotHex}

\* The refs arguments of compute_refs_hash.
RefPool ==
    {GLR, sha256_hex(SUBJECT_TEXT), sha256_hex(CANON_TEXT), FallbackZone.zone_id}

RefLists == ListsUpTo(RefPool, MaxRefs)

\* The artifact file before anything was written to it.
NoArtifact == [state |-> "none"]

\* The artifact file after open(..., 'w') and a json.dump that raised part way.
PartialArtifact == [state |-> "partial"]

\* The artifact file with an attestation and, when has_witnesses, the three
\* entropy readings of the witnesses attachment.
Artifact(a, has_witnesses, d, n, b) ==
    [state |-> "saved", attestation |-> a, has_witnesses |-> has_witnesses,
     entropy |-> [drand |-> d, nist |-> n, bitcoin |-> b]]

\* Seconds from the ceremony time to the end of live mode (one day) and the
\* age beyond which live entropy is refused.
LIVE_DEADLINE == 86400

REALTIME_LIMIT == 3600

\* The clock readings told apart by main, as offsets from the ceremony time.
ClockValues ==
    {0 - 1, 0, REALTIME_LIMIT, REALTIME_LIMIT + 1, LIVE_DEADLINE, LIVE_DEADLINE + 1}

\* What input() can return: the three options and any other text.
Choices == {"1", "2", "3", "other"}

\* What a fetch of one entropy source leaves: the data or the error text.
FetchOutcomes == {"ok", "error"}

\* ------------------------------------------------------------------------
\* verify_artifact (witness.py) and the scripts verify_quick.py, verify_full.py
\* ------------------------------------------------------------------------
\* The attestation of the artifact the ceremony writes.
GenesisAttestation == create_genesis_attestation(FallbackZone, FALSE)

\* Result of verify_artifact: the marks it printed and the value returned,
\* or the exception that left the function.
ArtifactResult(raised, result, checks) ==
    [raised |-> raised, result |-> result, checks |-> checks]

Mark(ok) == IF ok THEN "pass" ELSE "fail"

verify_artifact(file, nacl) ==
    IF file.state = "none" THEN ArtifactResult("none", FALSE, <<>>)
    ELSE IF file.state = "partial" THEN ArtifactResult("JSONDecodeError", FALSE, <<>>)
    ELSE
    LET att == file.attestation
        glr_ok == sha256_hex(<<>>) = GLR
        zone == derive_genesis_zone(nacl)
        zone_ok == zone.zone_id = att.zone
        subject_ok == sha256_hex(SUBJECT_TEXT) = att.subject
        canon_ok == sha256_hex(CANON_TEXT) = att.canon
        id_raises == compute_attestation_id_raises(att.zone, att.subject,
                                                   att.canon, att.time)
        id_ok == compute_attestation_id(att.zone, att.subject, att.canon,
                                        att.time) = att.id
        first == <<Mark(glr_ok), Mark(zone_ok), Mark(subject_ok), Mark(canon_ok)>>
        verification_ == verify_attestation(att, zone.public_key, nacl)
    IN
    IF id_raises # "none" THEN ArtifactResult(id_raises, FALSE, first)
    ELSE IF ~nacl
    THEN ArtifactResult("none",
             glr_ok /\ zone_ok /\ subject_ok /\ canon_ok /\ id_ok,
             first \o <<Mark(id_ok), "skipped">>)
    ELSE IF verification_.raised # "none"
    THEN ArtifactResult(verification_.raised, FALSE, first \o <<Mark(id_ok)>>)
    ELSE ArtifactResult("none",
             glr_ok /\ zone_ok /\ subject_ok /\ canon_ok /\ id_ok
                 /\ verification_.valid,
             first \o <<Mark(id_ok), Mark(verification_.valid)>>)

\* sha256(b'') of the scripts.
script_glr == bytes_to_hex(sha256_bytes(<<>>))

\* KNOWN_ZONE, the literal both scripts compare with when PyNaCl is missing.
KNOWN_ZONE == FallbackZone.zone_id

\* The zone id the scripts derive with PyNaCl from SHA256(glr || "glogos-genesis").
script_derived_zone_id ==
    LET seed == sha256_bytes(hex_to_bytes(script_glr) \o encode_utf8(<<DOMAIN_SEPARATOR>>))
    IN bytes_to_hex(sha256_bytes(VerifyKeyOf(seed)))

\* The exception that leaves check [5] of a script run with PyNaCl: a field
\* that binascii.unhexlify refuses, or a time int.to_bytes(8, 'big') refuses.
script_signature_raises(att) ==
    IF ~IsHex(att.zone) \/ ~IsHex(att.subject) \/ ~IsHex(att.canon)
    THEN "binascii.Error"
    ELSE IF ~InUint64(att.time) THEN "OverflowError"
    ELSE "none"

\* Check [5] of the scripts with PyNaCl: the id is computed from the fields,
\* and the proof is verified under the key derived in check [4].
script_signature_ok(att) ==
    LET id_payload == hex_to_bytes(att.zone) \o hex_to_bytes(att.subject)
                          \o hex_to_bytes(att.canon) \o uint64_be(att.time)
        computed_id == bytes_to_hex(sha256_bytes(id_payload))
        refs_concat == encode_utf8(join(sorted(att.refs)))
        refs_hash_ == sha256_bytes(refs_concat)
        sign_input == hex_to_bytes(computed_id) \o hex_to_bytes(att.subject)
                          \o uint64_be(att.time) \o refs_hash_ \o hex_to_bytes(att.canon)
        seed == sha256_bytes(hex_to_bytes(script_glr) \o encode_utf8(<<DOMAIN_SEPARATOR>>))
    IN /\ IsHex(att.proof)
       /\ Ed25519Verifies(VerifyKeyOf(seed), sign_input, hex_to_bytes(att.proof))

\* verify_quick.py: the outcome it printed for each of its five checks, up
\* to the exception that ended it.
verify_quick(file, nacl) ==
    IF file.state = "none" THEN [raised |-> "FileNotFoundError", lines |-> <<>>]
    ELSE IF file.state = "partial" THEN [raised |-> "JSONDecodeError", lines |-> <<>>]
    ELSE
    LET att == file.attestation
        PassFail(ok) == IF ok THEN "PASS" ELSE "FAIL"
        first == <<PassFail(att.refs[1] = script_glr),
                   PassFail(att.subject = sha256_hex(SUBJECT_TEXT)),
                   PassFail(att.canon = sha256_hex(CANON_TEXT))>>
    IN
    IF att.refs = <<>> THEN [raised |-> "IndexError", lines |-> <<>>]
    ELSE IF ~nacl
    THEN [raised |-> "none",
          lines |-> first \o <<IF att.zone = KNOWN_ZONE THEN "PASS" ELSE "SKIPPED",
                                "SKIPPED">>]
    ELSE LET fourth == first \o <<PassFail(att.zone = script_derived_zone_id)>>
         IN IF script_signature_raises(att) # "none"
            THEN [raised |-> script_signature_raises(att), lines |-> fourth]
            ELSE [raised |-> "none",
                  lines |-> fourth \o <<PassFail(script_signature_ok(att))>>]

\* What the live source can answer for an entropy reading of the artifact:
\* a reading taken from the source can match, a mock or an error record
\* cannot.
LiveOutcomes(reading) ==
    IF reading = "ok" THEN {"match", "mismatch", "error"} ELSE {"mismatch", "error"}

\* The entropy readings of the artifacts given to the verifiers.
EntropyInputs ==
    {[drand |-> "ok", nist |-> "ok", bitcoin |-> "ok"],
     [drand |-> "mock", nist |-> "mock", bitcoin |-> "mock"],
     [drand |-> "absent", nist |-> "ok", bitcoin |-> "absent"]}

\* The artifact files given to the verifiers: none, a partly written one,
\* and the genesis attestation or one alteration of it, with and without
\* the witnesses attachment.
ArtifactInputs ==
    LET atts == {GenesisAttestation} \cup Tamper(GenesisAttestation, FallbackZone.private_key)
    IN {NoArtifact, PartialArtifact}
           \cup {Artifact(a, FALSE, "absent", "absent", "absent") : a \in atts}
           \cup {Artifact(a, TRUE, e.drand, e.nist, e.bitcoin) :
                    a \in atts, e \in EntropyInputs}

\* ------------------------------------------------------------------------
\* State
\* ------------------------------------------------------------------------
VARIABLES
    NACL_AVAILABLE,       \* whether the import of nacl.signing succeeded
    genesis_zone,         \* main: result of derive_genesis_zone()
    genesis_attestation,  \* main: result of create_genesis_attestation()
    attestation,          \* verify_attestation: its attestation argument
    public_key,           \* verify_attestation: its public_key argument
    verification,         \* verify_attestation: its result
    refs,                 \* compute_refs_hash: its argument
    refs_hash,            \* compute_refs_hash: its result (<<>> before the call)
    choice,               \* main: the option read from the menu
    pc,                   \* main: the statement it is at
    now,                  \* the clock, in seconds after GENESIS_TIMESTAMP
    drand,                \* main: what the drand fetch left
    nist,                 \* main: what the NIST fetch left
    bitcoin,              \* main: what the Bitcoin fetch left
    artifact,             \* the artifact file genesis_artifact.json
    artifact_result,      \* verify_artifact: its checks and its return value
    quick_report,         \* verify_quick.py: the lines it printed
    full_pc,              \* verify_full.py: the statement it is at
    all_passed,           \* verify_full.py: its all_passed flag
    report,               \* verify_full.py: the outcomes it printed
    live                  \* verify_full.py: what each live source answered

mainVars == <<choice, pc, now, drand, nist, bitcoin>>

checkVars == <<artifact_result, quick_report, full_pc, all_passed, report, live>>

vars ==
    <<NACL_AVAILABLE, genesis_zone, genesis_attestation, attestation, public_key,
      verification, refs, refs_hash, mainVars, artifact, checkVars>>

\* main has not been started.
MainIdle ==
    /\ choice = "none"
    /\ pc = "idle"
    /\ now = 0
    /\ drand = "unset"
    /\ nist = "unset"
    /\ bitcoin = "unset"

\* No verifier has been started.
CheckIdle ==
    /\ artifact_result = <<>>
    /\ quick_report = <<>>
    /\ full_pc = "idle"
    /\ all_passed = TRUE
    /\ report = <<>>
    /\ live = <<>>

Init ==
    /\ NACL_AVAILABLE \in BOOLEAN
    /\ genesis_zone = NoZone
    /\ genesis_attestation = NoAttestation
    /\ attestation = NoAttestation
    /\ public_key = <<>>
    /\ verification = NotCalled
    /\ refs = <<>>
    /\ refs_hash = <<>>
    /\ MainIdle
    /\ artifact = NoArtifact
    /\ CheckIdle

DeriveGenesisZone ==
    /\ genesis_zone = NoZone
    /\ genesis_zone' = derive_genesis_zone(NACL_AVAILABLE)
    /\ UNCHANGED <<NACL_AVAILABLE, genesis_attestation, attestation, public_key,
                   verification, refs, refs_hash, mainVars, artifact, checkVars>>

CreateGenesisAttestation ==
    /\ genesis_zone # NoZone
    /\ genesis_attestation = NoAttestation
    /\ genesis_attestation' = create_genesis_attestation(genesis_zone, NACL_AVAILABLE)
    /\ UNCHANGED <<NACL_AVAILABLE, genesis_zone, attestation, public_key,
                   verification, refs, refs_hash, mainVars, artifact, checkVars>>

VerifyAttestation ==
    /\ genesis_attestation # NoAttestation
    /\ verification = NotCalled
    /\ \E a \in AttestationInputs(genesis_attestation, genesis_zone.private_key),
          pk \in PublicKeyInputs(genesis_zone) :
          /\ attestation' = a
          /\ public_key' = pk
          /\ verification' = verify_attestation(a, pk, NACL_AVAILABLE)
    /\ UNCHANGED <<NACL_AVAILABLE, genesis_zone, genesis_attestation, refs, refs_hash,
                   mainVars, artifact, checkVars>>

Next == DeriveGenesisZone \/ CreateGenesisAttestation \/ VerifyAttestation

Spec == Init /\ [][Next]_vars

\* compute_refs_hash on its own, applied to every refs list of the bounds.
InitRefs ==
    /\ NACL_AVAILABLE \in BOOLEAN
    /\ genesis_zone = NoZone
    /\ genesis_attestation = NoAttestation
    /\ attestation = NoAttestation
    /\ public_key = <<>>
    /\ verification = NotCalled
    /\ refs \in RefLists
    /\ refs_hash = <<>>
    /\ MainIdle
    /\ artifact = NoArtifact
    /\ CheckIdle

ComputeRefsHash ==
    /\ refs_hash = <<>>
    /\ refs_hash' = compute_refs_hash(refs)
    /\ UNCHANGED <<NACL_AVAILABLE, genesis_zone, genesis_attestation, attestation,
                   public_key, verification, refs, mainVars, artifact, checkVars>>

NextRefs == ComputeRefsHash

SpecRefs == InitRefs /\ [][NextRefs]_vars

\* ------------------------------------------------------------------------
\* The ceremony run, main()
\* ------------------------------------------------------------------------
InitMain ==
    /\ NACL_AVAILABLE \in BOOLEAN
    /\ genesis_zone = NoZone
    /\ genesis_attestation = NoAttestation
    /\ attestation = NoAttestation
    /\ public_key = <<>>
    /\ verification = NotCalled
    /\ refs = <<>>
    /\ refs_hash = <<>>
    /\ choice = "none"
    /\ pc = "menu"
    /\ now \in ClockValues
    /\ drand = "unset"
    /\ nist = "unset"
    /\ bitcoin = "unset"
    /\ artifact = NoArtifact
    /\ CheckIdle

coreVars ==
    <<NACL_AVAILABLE, genesis_zone, genesis_attestation, attestation, public_key,
      verification, refs, refs_hash>>

\* Time passes between two statements of main.
Tick ==
    /\ pc \notin {"idle", "complete", "returned_option3", "returned_passed",
                  "returned_invalid", "returned_stale", "cancelled", "error"}
    /\ \E t \in ClockValues : t > now /\ now' = t
    /\ UNCHANGED <<coreVars, choice, pc, drand, nist, bitcoin, artifact, checkVars>>

\* The menu: option 3 verifies the artifact and returns; option 2 returns
\* when the day after the ceremony is over and waits otherwise.
MainMenu ==
    /\ pc = "menu"
    /\ \E c \in Choices :
          /\ choice' = c
          /\ pc' = IF c = "3" THEN "option3"
                   ELSE IF c = "2"
                        THEN (IF now > LIVE_DEADLINE THEN "returned_passed" ELSE "wait")
                        ELSE "step1"
    /\ UNCHANGED <<coreVars, now, drand, nist, bitcoin, artifact, checkVars>>

\* wait_for_ceremony_time returns once the ceremony time is reached.
MainWait ==
    /\ pc = "wait"
    /\ now >= 0
    /\ pc' = "step1"
    /\ UNCHANGED <<coreVars, choice, now, drand, nist, bitcoin, artifact, checkVars>>

\* Ctrl+C during the countdown.
MainCancel ==
    /\ pc = "wait"
    /\ now < 0
    /\ pc' = "cancelled"
    /\ UNCHANGED <<coreVars, choice, now, drand, nist, bitcoin, artifact, checkVars>>

MainDerive ==
    /\ pc = "step1"
    /\ genesis_zone' = derive_genesis_zone(NACL_AVAILABLE)
    /\ pc' = "step2"
    /\ UNCHANGED <<NACL_AVAILABLE, genesis_attestation, attestation, public_key,
                   verification, refs, refs_hash, choice, now, drand, nist, bitcoin,
                   artifact, checkVars>>

MainCreateAtCurrentTime ==
    /\ pc = "step2"
    /\ genesis_attestation' =
           Rebind([create_genesis_attestation(genesis_zone, NACL_AVAILABLE)
                       EXCEPT !.time = GENESIS_TIMESTAMP + now])
    /\ pc' = "step3"
    /\ UNCHANGED <<NACL_AVAILABLE, genesis_zone, attestation, public_key,
                   verification, refs, refs_hash, choice, now, drand, nist, bitcoin,
                   artifact, checkVars>>

MainCreate ==
    /\ pc = "step2"
    /\ genesis_attestation' = create_genesis_attestation(genesis_zone, NACL_AVAILABLE)
    /\ pc' = "step3"
    /\ UNCHANGED <<NACL_AVAILABLE, genesis_zone, attestation, public_key,
                   verification, refs, refs_hash, choice, now, drand, nist, bitcoin,
                   artifact, checkVars>>

\* Step 3: main returns when the attestation does not verify.
MainVerify ==
    /\ pc = "step3"
    /\ attestation' = genesis_attestation
    /\ public_key' = genesis_zone.public_key
    /\ verification' =
           verify_attestation(genesis_attestation, genesis_zone.public_key, NACL_AVAILABLE)
    /\ pc' = IF verification'.raised # "none" THEN "error"
             ELSE IF verification'.valid THEN "step4" ELSE "returned_invalid"
    /\ UNCHANGED <<NACL_AVAILABLE, genesis_zone, genesis_attestation, refs, refs_hash,
                   choice, now, drand, nist, bitcoin, artifact, checkVars>>

MainEntropyAlwaysFetched ==
    /\ pc = "step4"
    /\ IF choice = "1"
       THEN /\ drand' = "mock"
            /\ nist' = "mock"
            /\ bitcoin' = "mock"
            /\ pc' = "step5"
       ELSE /\ pc' = "fetch_drand"
            /\ UNCHANGED <<drand, nist, bitcoin>>
    /\ UNCHANGED <<coreVars, choice, now, artifact, checkVars>>

\* Step 4 up to the fetches: live mode returns when the ceremony time is more
\* than an hour ago; simulation takes the mock entropy.
MainEntropy ==
    /\ pc = "step4"
    /\ IF choice = "2" /\ now > REALTIME_LIMIT
       THEN /\ pc' = "returned_stale"
            /\ UNCHANGED <<drand, nist, bitcoin>>
       ELSE IF choice = "1"
            THEN /\ drand' = "mock"
                 /\ nist' = "mock"
                 /\ bitcoin' = "mock"
                 /\ pc' = "step5"
            ELSE /\ pc' = "fetch_drand"
                 /\ UNCHANGED <<drand, nist, bitcoin>>
    /\ UNCHANGED <<coreVars, choice, now, artifact, checkVars>>

FetchDrandUncaught ==
    /\ pc = "fetch_drand"
    /\ \E o \in FetchOutcomes :
          /\ drand' = o
          /\ pc' = IF o = "error" THEN "error" ELSE "fetch_nist"
    /\ UNCHANGED <<coreVars, choice, now, nist, bitcoin, artifact, checkVars>>

\* Each fetch stores the data or, in its except clause, the error.
FetchDrand ==
    /\ pc = "fetch_drand"
    /\ \E o \in FetchOutcomes : drand' = o
    /\ pc' = "fetch_nist"
    /\ UNCHANGED <<coreVars, choice, now, nist, bitcoin, artifact, checkVars>>

FetchNist ==
    /\ pc = "fetch_nist"
    /\ \E o \in FetchOutcomes : nist' = o
    /\ pc' = "fetch_bitcoin"
    /\ UNCHANGED <<coreVars, choice, now, drand, bitcoin, artifact, checkVars>>

FetchBitcoin ==
    /\ pc = "fetch_bitcoin"
    /\ \E o \in FetchOutcomes : bitcoin' = o
    /\ pc' = "step5"
    /\ UNCHANGED <<coreVars, choice, now, drand, nist, artifact, checkVars>>

\* Step 5: in live mode ceremony_time was rebound to a datetime in step 4, so
\* json.dump raises TypeError after open() emptied the file and the first
\* keys were written; otherwise the artifact is written whole.
MainSave ==
    /\ pc = "step5"
    /\ IF choice = "2"
       THEN /\ artifact' = PartialArtifact
            /\ pc' = "error"
       ELSE /\ artifact' = Artifact(genesis_attestation, TRUE, drand, nist, bitcoin)
            /\ pc' = "complete"
    /\ UNCHANGED <<coreVars, choice, now, drand, nist, bitcoin, checkVars>>

MainSteps ==
    \/ MainMenu \/ MainWait \/ MainCancel \/ MainDerive \/ MainCreate \/ MainVerify
    \/ MainEntropy \/ FetchDrand \/ FetchNist \/ FetchBitcoin \/ MainSave

\* Option 3 of the menu: verify_artifact() on the artifact file, then return.
MainVerifyArtifact ==
    /\ pc = "option3"
    /\ artifact_result' = verify_artifact(artifact, NACL_AVAILABLE)
    /\ pc' = IF artifact_result'.raised # "none" THEN "error" ELSE "returned_option3"
    /\ UNCHANGED <<coreVars, choice, now, drand, nist, bitcoin, artifact,
                   quick_report, full_pc, all_passed, report, live>>

NextMain == MainSteps \/ MainVerifyArtifact \/ Tick

SpecMain == InitMain /\ [][NextMain]_vars

\* ------------------------------------------------------------------------
\* The three verifiers run on one artifact file
\* ------------------------------------------------------------------------
InitVerify ==
    /\ NACL_AVAILABLE \in BOOLEAN
    /\ genesis_zone = NoZone
    /\ genesis_attestation = NoAttestation
    /\ attestation = NoAttestation
    /\ public_key = <<>>
    /\ verification = NotCalled
    /\ refs = <<>>
    /\ refs_hash = <<>>
    /\ MainIdle
    /\ artifact \in ArtifactInputs
    /\ artifact_result = <<>>
    /\ quick_report = <<>>
    /\ full_pc = "load"
    /\ all_passed = TRUE
    /\ report = <<>>
    /\ live = [drand |-> "pending", bitcoin |-> "pending", nist |-> "pending"]

fixedVars == <<coreVars, mainVars, artifact>>

VerifyArtifact ==
    /\ artifact_result = <<>>
    /\ artifact_result' = verify_artifact(artifact, NACL_AVAILABLE)
    /\ UNCHANGED <<fixedVars, quick_report, full_pc, all_passed, report, live>>

VerifyQuick ==
    /\ quick_report = <<>>
    /\ quick_report' = verify_quick(artifact, NACL_AVAILABLE)
    /\ UNCHANGED <<fixedVars, artifact_result, full_pc, all_passed, report, live>>

\* One check of verify_full.py: the outcome is printed, all_passed is set
\* and the script goes on to the next statement.
FullStep(outcome, passed, next) ==
    /\ report' = Append(report, outcome)
    /\ all_passed' = passed
    /\ full_pc' = next
    /\ UNCHANGED <<fixedVars, artifact_result, quick_report, live>>

\* An exception no handler of the script catches.
FullCrash ==
    /\ full_pc' = "crashed"
    /\ UNCHANGED <<fixedVars, artifact_result, quick_report, all_passed, report, live>>

FullLoadWitnessesRequired ==
    /\ full_pc = "load"
    /\ IF artifact.state # "saved" \/ ~artifact.has_witnesses
       THEN FullCrash
       ELSE /\ full_pc' = "glr"
            /\ UNCHANGED <<fixedVars, artifact_result, quick_report, all_passed,
                           report, live>>

\* json.load of the file; witnesses and entropy are read with .get.
FullLoad ==
    /\ full_pc = "load"
    /\ IF artifact.state # "saved"
       THEN FullCrash
       ELSE /\ full_pc' = "glr"
            /\ UNCHANGED <<fixedVars, artifact_result, quick_report, all_passed,
                           report, live>>

\* [1] att['refs'][0] == sha256(b''); IndexError on an empty list.
FullGlr ==
    /\ full_pc = "glr"
    /\ IF artifact.attestation.refs = <<>>
       THEN FullCrash
       ELSE LET glr_ok == artifact.attestation.refs[1] = script_glr
            IN FullStep(IF glr_ok THEN "PASS" ELSE "FAIL", all_passed /\ glr_ok,
                        "subject")

FullSubject ==
    /\ full_pc = "subject"
    /\ LET subject_ok == artifact.attestation.subject = sha256_hex(SUBJECT_TEXT)
       IN FullStep(IF subject_ok THEN "PASS" ELSE "FAIL", all_passed /\ subject_ok,
                   "canon")

FullCanon ==
    /\ full_pc = "canon"
    /\ LET canon_ok == artifact.attestation.canon = sha256_hex(CANON_TEXT)
       IN FullStep(IF canon_ok THEN "PASS" ELSE "FAIL", all_passed /\ canon_ok,
                   "zone")

\* [4] With PyNaCl the zone id is derived; without it the zone is compared
\* with KNOWN_ZONE and a difference is printed as SKIPPED.
FullZone ==
    /\ full_pc = "zone"
    /\ IF NACL_AVAILABLE
       THEN LET zone_ok == artifact.attestation.zone = script_derived_zone_id
            IN FullStep(IF zone_ok THEN "PASS" ELSE "FAIL", all_passed /\ zone_ok,
                        "signature")
       ELSE LET zone_ok == artifact.attestation.zone = KNOWN_ZONE
            IN FullStep(IF zone_ok THEN "PASS" ELSE "SKIPPED", all_passed /\ zone_ok,
                        "signature")

\* [5] Skipped without PyNaCl; with it a failed verification sets
\* all_passed = False.
FullSignature ==
    /\ full_pc = "signature"
    /\ IF ~NACL_AVAILABLE
       THEN FullStep("SKIPPED", all_passed, "entropy")
       ELSE IF script_signature_raises(artifact.attestation) # "none"
            THEN FullCrash
            ELSE IF script_signature_ok(artifact.attestation)
                 THEN FullStep("PASS", all_passed, "entropy")
                 ELSE FullStep("FAIL", FALSE, "entropy")

\* Part 2 is skipped when the artifact holds no entropy.
FullEntropy ==
    /\ full_pc = "entropy"
    /\ IF ~artifact.has_witnesses
       THEN FullStep("NO ENTROPY", all_passed, "result")
       ELSE /\ full_pc' = "drand"
            /\ UNCHANGED <<fixedVars, artifact_result, quick_report, all_passed,
                           report, live>>

\* One entropy source of Part 2: skipped when the artifact has no reading
\* of it; otherwise the live value is fetched and compared.  on_error is
\* what the except clause of the source leaves in all_passed.
FullSource(source, next, on_error) ==
    IF artifact.entropy[source] = "absent"
    THEN /\ live' = [live EXCEPT ![source] = "skipped"]
         /\ full_pc' = next
         /\ UNCHANGED <<fixedVars, artifact_result, quick_report, all_passed, report>>
    ELSE \E o \in LiveOutcomes(artifact.entropy[source]) :
            /\ live' = [live EXCEPT ![source] = o]
            /\ report' = Append(report, CASE o = "match" -> "MATCH"
                                          [] o = "mismatch" -> "MISMATCH"
                                          [] OTHER -> IF on_error THEN "WARNING"
                                                      ELSE "ERROR")
            /\ all_passed' = CASE o = "match" -> all_passed
                               [] o = "mismatch" -> FALSE
                               [] OTHER -> all_passed /\ on_error
            /\ full_pc' = next
            /\ UNCHANGED <<fixedVars, artifact_result, quick_report>>

FullDrand == full_pc = "drand" /\ FullSource("drand", "bitcoin", FALSE)

FullBitcoin == full_pc = "bitcoin" /\ FullSource("bitcoin", "nist", FALSE)

FullNist == full_pc = "nist" /\ FullSource("nist", "result", TRUE)

FullResult ==
    /\ full_pc = "result"
    /\ FullStep(IF all_passed THEN "ALL CHECKS PASSED" ELSE "SOME CHECKS FAILED",
                all_passed, "done")

NextVerify ==
    \/ VerifyArtifact \/ VerifyQuick
    \/ FullLoad \/ FullGlr \/ FullSubject \/ FullCanon \/ FullZone \/ FullSignature
    \/ FullEntropy \/ FullDrand \/ FullBitcoin \/ FullNist \/ FullResult

SpecVerify == InitVerify /\ [][NextVerify]_vars
\* ------------------------------------------------------------------------
\* The three checks of the verifier, stated on their own
\* ------------------------------------------------------------------------
Verified == verification # NotCalled

ResultReturned == verification.raised = "none"

ZoneCheck(a, pk) == IsHex(pk) /\ sha256_hex(hex_to_bytes(pk)) = a.zone

IdCheck(a) ==
    /\ compute_attestation_id_raises(a.zone, a.subject, a.canon, a.time) = "none"
    /\ compute_attestation_id(a.zone, a.subject, a.canon, a.time) = a.id

SignatureCheck(a, pk) ==
    /\ compute_attestation_id_raises(a.zone, a.subject, a.canon, a.time) = "none"
    /\ IsHex(a.id)
    /\ verify_signature(
           build_signature_input(a.id, a.subject, a.time,
                                 compute_refs_hash(a.refs), a.canon),
           a.proof, pk)

StepOrder ==
    << {"Zone verification"}, {"Attestation ID verification"},
       {"Ed25519 signature verification", "Signature verification"} >>

\* The verifier was given the zone's own public key.
OwnKey == genesis_attestation # NoAttestation /\ public_key = genesis_zone.public_key

AllPassed(steps) == \A k \in 1 .. Len(steps) : steps[k].passed

FailedAt(n, error) ==
    /\ ResultReturned
    /\ ~verification.valid
    /\ verification.error = error
    /\ Len(verification.steps) = n
    /\ \A k \in 1 .. (n - 1) : verification.steps[k].passed
    /\ ~verification.steps[n].passed

Range(seq) == {seq[k] : k \in 1 .. Len(seq)}

Count(x, seq) == Cardinality({k \in 1 .. Len(seq) : seq[k] = x})

SameMultiset(r1, r2) ==
    /\ Len(r1) = Len(r2)
    /\ \A x \in Range(r1) \cup Range(r2) : Count(x, r1) = Count(x, r2)

\* The list is in the order Python gives its strings.
Ordered(seq) ==
    \A j, k \in 1 .. Len(seq) : j < k => ~KeyLess(SortKey(seq[k]), SortKey(seq[j]))

\* ------------------------------------------------------------------------
\* Claims
\* ------------------------------------------------------------------------

\* C1: verifying the attestation built by create_genesis_attestation from the
\* identity of derive_genesis_zone, under that identity's public key, returns
\* valid = true with all three steps recorded as passed.
C1_BuiltAttestationVerifies ==
    (Verified /\ OwnKey /\ attestation = genesis_attestation)
        => /\ ResultReturned
           /\ verification.valid
           /\ Len(verification.steps) = 3
           /\ AllPassed(verification.steps)

C1_Witness ==
    /\ NACL_AVAILABLE
    /\ Verified
    /\ OwnKey
    /\ attestation = genesis_attestation

\* C2: verify_attestation returns valid = true only if the zone check, the
\* identifier check and the Ed25519 verification of the proof all succeed, in
\* every configuration, also without an Ed25519 capability.
C2_ValidOnlyIfAllChecksPass ==
    (Verified /\ ResultReturned /\ verification.valid)
        => /\ ZoneCheck(attestation, public_key)
           /\ IdCheck(attestation)
           /\ SignatureCheck(attestation, public_key)

\* C3: the checks run in the order zone, id, signature and stop at the first
\* failure: the steps are a prefix of that order, the outcomes of the zone
\* and id checks are the recorded ones, every step but the last is passed,
\* and in an invalid result the last step is the failed one.
C3_OrderedShortCircuit ==
    (Verified /\ ResultReturned) =>
        LET steps == verification.steps
            n == Len(steps)
        IN /\ n \in 1 .. 3
           /\ \A k \in 1 .. n : steps[k].name \in StepOrder[k]
           /\ \A k \in 1 .. (n - 1) : steps[k].passed
           /\ steps[1].passed = ZoneCheck(attestation, public_key)
           /\ n >= 2 => steps[2].passed = IdCheck(attestation)
           /\ (n = 3 /\ NACL_AVAILABLE)
                  => steps[3].passed = SignatureCheck(attestation, public_key)
           /\ ~verification.valid => ~steps[n].passed
           /\ verification.valid => (n = 3 /\ steps[n].passed)

C3_Witness ==
    /\ Verified
    /\ ResultReturned
    /\ Len(verification.steps) = 2
    /\ ~verification.valid
    /\ ~SignatureCheck(attestation, public_key)

\* C4: an invalid result carries exactly the error of the first check that
\* fails (zone, then id, then signature) and a valid result carries none.
C4_ErrorOfFirstFailure ==
    (Verified /\ ResultReturned) =>
        /\ verification.valid => verification.error = "none"
        /\ ~verification.valid =>
               verification.error =
                   IF ~ZoneCheck(attestation, public_key) THEN "Zone ID mismatch"
                   ELSE IF ~IdCheck(attestation) THEN "Attestation ID mismatch"
                   ELSE "Invalid signature"

C4_Witness ==
    /\ Verified
    /\ ResultReturned
    /\ ~ZoneCheck(attestation, public_key)
    /\ ~IdCheck(attestation)
    /\ ~SignatureCheck(attestation, public_key)

\* The attestation under verification is the built one with one bit of the
\* field f flipped.
OneBitFlipped(f) ==
    /\ Verified
    /\ OwnKey
    /\ \E i \in BitPositions : attestation = FlipField(genesis_attestation, f, i)

\* C5 as stated: a single flipped bit in subject, canon, time or zone of a
\* built attestation makes step 2, the identifier check, fail.
C5_FlipFailsStepTwo ==
    \A f \in {"subject", "canon", "time", "zone"} :
        OneBitFlipped(f) =>
            /\ ResultReturned
            /\ Len(verification.steps) >= 2
            /\ ~verification.steps[2].passed

\* C5 amended: a single flipped bit in subject, canon or time makes the
\* identifier check fail after the zone check passed; a single flipped bit in
\* zone makes the zone check fail, so the identifier check is not run; in all
\* four cases the id recomputed from the fields differs from the stored id.
C5_FlipFailsFirstBoundCheck ==
    /\ \A f \in {"subject", "canon", "time"} :
           OneBitFlipped(f) => FailedAt(2, "Attestation ID mismatch")
    /\ OneBitFlipped("zone") => FailedAt(1, "Zone ID mismatch")
    /\ \A f \in {"subject", "canon", "time", "zone"} :
           OneBitFlipped(f) => ~IdCheck(attestation)

C5_Witness == OneBitFlipped("time") /\ ResultReturned

\* C6: a flipped bit in the proof of a built attestation, everything else
\* unchanged, makes verification fail at step 3 with steps 1 and 2 passed.
C6_ProofFlipFailsStepThree ==
    OneBitFlipped("proof") => FailedAt(3, "Invalid signature")

\* C7: replacing the refs of a valid attestation by a different non-empty
\* list changes the refs hash and makes verification fail at step 3, with
\* steps 1 and 2 passed.
C7_RefsSwapFailsStepThree ==
    (/\ Verified
     /\ OwnKey
     /\ attestation = [genesis_attestation EXCEPT !.refs = attestation.refs]
     /\ attestation.refs # <<>>
     /\ attestation.refs # genesis_attestation.refs)
        => /\ compute_refs_hash(attestation.refs)
                  # compute_refs_hash(genesis_attestation.refs)
           /\ FailedAt(3, "Invalid signature")

\* C8: compute_refs_hash gives SHA256 of the empty bytes for the empty list
\* and otherwise SHA256 of the refs joined by "|" in sorted order, so every
\* permutation of a list has the same hash.
C8_RefsHashFormula ==
    refs_hash # <<>> =>
        /\ refs = <<>> => refs_hash = bytes_to_hex(sha256_bytes(<<>>))
        /\ refs # <<>> =>
               \E s \in RefLists :
                   /\ SameMultiset(s, refs)
                   /\ Ordered(s)
                   /\ refs_hash = bytes_to_hex(sha256_bytes(encode_utf8(join(s))))
        /\ \A p \in RefLists : SameMultiset(p, refs) => compute_refs_hash(p) = refs_hash

C8_Witness ==
    /\ refs_hash # <<>>
    /\ Len(refs) = 3
    /\ Cardinality(Range(refs)) = 3
    /\ ~Ordered(refs)

C10_NoAttestationWithoutSigning ==
    ~NACL_AVAILABLE => genesis_attestation = NoAttestation

\* ------------------------------------------------------------------------
\* The verifiers and the witnesses attachment
\* ------------------------------------------------------------------------
\* The artifact file with its witnesses key removed.
WithoutWitnesses(file) ==
    IF file.state = "saved"
    THEN Artifact(file.attestation, FALSE, "absent", "absent", "absent")
    ELSE file

ArtifactVerified == artifact_result # <<>>

Part1Done == full_pc \in {"entropy", "drand", "bitcoin", "nist", "result", "done"}

GenesisWithoutWitnesses ==
    /\ artifact.state = "saved"
    /\ artifact.attestation = GenesisAttestation
    /\ ~artifact.has_witnesses

\* C11: the outcome of the cryptographic verification is the same with the
\* witnesses removed from the artifact (verify_artifact returns what it
\* returns for the attestation alone, and Part 1 of verify_full.py prints
\* what the five checks print for the attestation alone), and the genesis
\* attestation without any witnesses passes verify_artifact and is reported
\* by verify_full.py as ALL CHECKS PASSED.
C11_WitnessesDoNotAffectVerification ==
    /\ ArtifactVerified =>
           artifact_result = verify_artifact(WithoutWitnesses(artifact), NACL_AVAILABLE)
    /\ Part1Done =>
           SubSeq(report, 1, 5) =
               verify_quick(WithoutWitnesses(artifact), NACL_AVAILABLE).lines
    /\ GenesisWithoutWitnesses =>
           /\ full_pc # "crashed"
           /\ ArtifactVerified =>
                  artifact_result.raised = "none" /\ artifact_result.result
           /\ full_pc = "done" =>
                  all_passed /\ report[Len(report)] = "ALL CHECKS PASSED"

C11_Witness ==
    /\ GenesisWithoutWitnesses
    /\ ArtifactVerified
    /\ artifact_result.result
    /\ full_pc = "done"
    /\ report[Len(report)] = "ALL CHECKS PASSED"

Sources == {"drand", "bitcoin", "nist"}

\* C12: in verify_full.py a failed fetch of an entropy witness (drand,
\* Bitcoin or NIST raising an error) leaves all_passed as it was, so the
\* result after Part 2 is the result after Part 1 unless a comparison that
\* was carried out did not match.
C12_FetchErrorKeepsResult ==
    [][\A w \in Sources :
          (live[w] = "pending" /\ live'[w] = "error") => all_passed' = all_passed]_vars

\* ------------------------------------------------------------------------
\* The ceremony run
\* ------------------------------------------------------------------------
AfterFetches == {"fetch_nist", "fetch_bitcoin", "step5", "complete", "error"}

FetchFailed == drand = "error" \/ nist = "error" \/ bitcoin = "error"

\* C13: in main no witness fetch, succeeding or raising, changes the
\* attestation built in step 2 and verified in step 3: after the first
\* fetch the run is on its way to the save step or past it, the built
\* attestation is still the one that was verified, and the attestation in
\* a written artifact is equal to it in every field.
C13_FetchesLeaveAttestation ==
    /\ (drand # "unset" \/ nist # "unset" \/ bitcoin # "unset") =>
           /\ pc \in AfterFetches
           /\ pc = "error" => artifact = PartialArtifact
           /\ genesis_attestation = attestation
           /\ verification = verify_attestation(genesis_attestation,
                                 genesis_zone.public_key, NACL_AVAILABLE)
           /\ verification.valid
    /\ artifact.state = "saved" =>
           /\ artifact.attestation = genesis_attestation
           /\ \A f \in DOMAIN genesis_attestation :
                  artifact.attestation[f] = attestation[f]

C13_Witness ==
    /\ artifact.state = "saved"
    /\ drand = "error"
    /\ nist = "ok"
    /\ bitcoin = "error"
    /\ artifact.attestation = GenesisAttestation

\* C14: derive_genesis_zone and create_genesis_attestation give the same
\* values in every run: whatever the clock, the menu option, PyNaCl being
\* installed or not and the outcomes of the witness fetches, the zone of a
\* run is the one zone (seed, public key, zone id) and its attestation is
\* the one genesis attestation (id, proof and every other field).
C14_DeterministicGenesis ==
    /\ genesis_zone \in {NoZone, FallbackZone}
    /\ genesis_attestation \in {NoAttestation, GenesisAttestation}
    /\ pc \in {"step2", "step3", "step4", "fetch_drand"} \cup (AfterFetches \ {"error"}) =>
           /\ genesis_zone.seed = FallbackZone.seed
           /\ genesis_zone.public_key = FallbackZone.public_key
           /\ genesis_zone.zone_id = FallbackZone.zone_id
    /\ pc \in {"step3", "step4", "fetch_drand"} \cup (AfterFetches \ {"error"}) =>
           /\ genesis_attestation.id = GenesisAttestation.id
           /\ genesis_attestation.proof = GenesisAttestation.proof

C14_Witness ==
    /\ pc = "complete"
    /\ NACL_AVAILABLE
    /\ choice = "other"
    /\ now = LIVE_DEADLINE + 1
    /\ bitcoin = "error"
    /\ genesis_attestation.proof = FallbackProof
    /\ genesis_zone = FallbackZone

\* ------------------------------------------------------------------------
\* Malformed input
\* ------------------------------------------------------------------------
HexOfLength(hex_str, n) == IsHex(hex_str) /\ ByteLen(hex_to_bytes(hex_str)) = n

Malformed(a, pk) ==
    \/ ~HexOfLength(pk, 32)
    \/ \E f \in {"zone", "subject", "canon", "id"} : ~HexOfLength(a[f], 32)
    \/ ~HexOfLength(a.proof, 64)
    \/ \E k \in 1 .. Len(a.refs) : ~HexOfLength(a.refs[k], 32)
    \/ ~InUint64(a.time)

\* C15: verify_attestation rejects malformed input before anything else: when
\* a field or the public key is not hex of the required length (32 bytes,
\* 64 for the proof) or the time is outside the unsigned 64-bit range, the
\* call fails with an error for the malformed input and no step outcome is
\* recorded, instead of returning a mismatch or an invalid signature.
C15_MalformedRejectedFirst ==
    (Verified /\ Malformed(attestation, public_key)) =>
        /\ verification.raised # "none"
        /\ verification.steps = <<>>

\* ------------------------------------------------------------------------
\* The empty refs list
\* ------------------------------------------------------------------------
EmptyRefsSubstituted ==
    /\ Verified
    /\ OwnKey
    /\ attestation = [genesis_attestation EXCEPT !.refs = <<>>]

\* C17: the genesis attestation, built and signed with refs = [GLR], with
\* its refs replaced by the empty list fails verification at step 3: the
\* refs hash of the empty list is GLR while that of [GLR] is the SHA-256 of
\* GLR's hex text, so the zone and identifier checks pass and the signature
\* check fails.
C17_EmptyRefsFailsStepThree ==
    /\ compute_refs_hash(<<>>) = GLR
    /\ compute_refs_hash(<<GLR>>) = sha256_hex(GLR)
    /\ compute_refs_hash(<<>>) # compute_refs_hash(<<GLR>>)
    /\ EmptyRefsSubstituted => FailedAt(3, "Invalid signature")

\* ------------------------------------------------------------------------
\* Agreement of the verifiers
\* ------------------------------------------------------------------------
QuickDone == quick_report # <<>>

AllPass(lines) == Len(lines) = 5 /\ \A k \in 1 .. 5 : lines[k] = "PASS"

\* C16: with Ed25519 available the verifiers agree on every artifact: Part 1
\* of verify_full.py leaves all_passed true exactly when verify_artifact
\* returns True, and verify_quick.py prints PASS for all five checks exactly
\* when verify_artifact returns True.
C16_VerifiersAgree ==
    (NACL_AVAILABLE /\ ArtifactVerified /\ artifact.state = "saved") =>
        /\ full_pc = "entropy" =>
               (all_passed <=> (artifact_result.raised = "none" /\ artifact_result.result))
        /\ QuickDone =>
               (AllPass(quick_report.lines)
                    <=> (artifact_result.raised = "none" /\ artifact_result.result))

\* ------------------------------------------------------------------------
\* When the ceremony run writes the artifact
\* ------------------------------------------------------------------------
NothingFetched == drand = "unset" /\ nist = "unset" /\ bitcoin = "unset"

\* C18: main writes to the artifact file only after verify_attestation
\* returned valid = true for the attestation it saves; when the verification
\* fails main returns with no witness fetched and nothing written; and in
\* live mode, when the check before the fetches finds the clock more than
\* 3600 seconds past the ceremony time, main returns with no witness
\* fetched and nothing written.
C18_SavedOnlyAfterValid ==
    [][/\ artifact'.state # "none" =>
              /\ verification'.raised = "none"
              /\ verification'.valid
              /\ attestation' = genesis_attestation'
       /\ artifact'.state = "saved" => artifact'.attestation = attestation'
       /\ (pc = "step3" /\ pc' # pc /\ ~verification'.valid) =>
              pc' \in {"returned_invalid", "error"}
       /\ (pc = "step4" /\ pc' # pc /\ choice = "2" /\ now > REALTIME_LIMIT) =>
              pc' = "returned_stale"
       /\ pc' \in {"returned_invalid", "returned_stale"} =>
              NothingFetched' /\ artifact' = NoArtifact]_vars

C18_Witness ==
    /\ pc = "returned_stale"
    /\ choice = "2"
    /\ now > REALTIME_LIMIT
    /\ verification.valid
    /\ NothingFetched
    /\ artifact = NoArtifact

\* ------------------------------------------------------------------------
\* The accumulated result
\* ------------------------------------------------------------------------
FailureReported(lines) ==
    \E k \in 1 .. Len(lines) : lines[k] \in {"FAIL", "MISMATCH", "ERROR", "fail"}

\* C19: all_passed of verify_full.py starts true and, once false, is never
\* true again; the final line is ALL CHECKS PASSED exactly when no check that
\* ran reported a failure; and verify_artifact returns True exactly when
\* none of its checks was marked as failed.
C19_ResultIsConjunctionOfChecks ==
    /\ full_pc = "load" => all_passed
    /\ [][/\ ~all_passed => ~all_passed'
          /\ full_pc' = "done" =>
                 /\ report'[Len(report')] = "ALL CHECKS PASSED" <=> all_passed'
                 /\ all_passed' <=> ~FailureReported(report')
          /\ (artifact_result' # <<>> /\ artifact'.state = "saved"
                  /\ artifact_result'.raised = "none") =>
                 (artifact_result'.result <=> ~FailureReported(artifact_result'.checks))]_vars
====
